---- MODULE Spec2Model ----
(***************************************************************************)
(* Model of add_getters.py: a script that reads one Java source file,      *)
(* applies three re.sub rewrites to its text and writes the result back.   *)
(*                                                                         *)
(* A text is a sequence of tokens.  A token is a substring of the file:    *)
(* each literal the three patterns look for is one token, each run of      *)
(* whitespace is one token, the closing brace is one token, and every      *)
(* other piece of text is a token that no pattern element but [^}]* can    *)
(* consume.  The tokens are written as the very text they stand for, so    *)
(* the replacement templates below read like the templates of the script.  *)
(***************************************************************************)
EXTENDS Naturals, Sequences, FiniteSets

VARIABLES file, exists, writable, pc, content, prev, hist, file0, stdout, run, applied

vars == <<file, exists, writable, pc, content, prev, hist, file0, stdout, run, applied>>

(***************************************************************************)
(* Bounds of the model.                                                    *)
(***************************************************************************)
MaxLen == 3       \* pieces of an input text
MaxRuns == 2      \* invocations of the script on the same file
ChunkLen == 16    \* tokens that reach the disk in one write of the buffer

(***************************************************************************)
(* Tokens.                                                                 *)
(***************************************************************************)
ExitVehicleRequest == "public static class ExitVehicleRequest {"
ticketNumber == "private String ticketNumber;"
ReserveSpotRequest == "public static class ReserveSpotRequest {"
spotNumber == "private String spotNumber;"
durationMinutes == "private int durationMinutes;"
ParkingLotStatus == "public static class ParkingLotStatus {"
CloseBrace == "}"
OpenBrace == "{"
Space == " "
Other == "x"

\* The whitespace runs that occur in the templates, and the single blank.
NL4 == "\n    "
NL8 == "\n        "
NL12 == "\n            "
NL8NL8 == "\n        \n        "

WhiteSpace == {Space, NL4, NL8, NL12, NL8NL8}

\* The tokens an input file is drawn from.
Alphabet ==
  {ExitVehicleRequest, ticketNumber, ReserveSpotRequest, spotNumber,
   durationMinutes, ParkingLotStatus, CloseBrace, OpenBrace, Space, Other}

\* The two field-only classes as the Java file lays them out.
ExitVehicleClass == <<ExitVehicleRequest, NL8, ticketNumber, NL4, CloseBrace>>

ReserveSpotClass ==
  <<ReserveSpotRequest, NL8, spotNumber, NL8, durationMinutes, NL4,
    CloseBrace>>

\* An input file is built from pieces: a piece is one token of the alphabet
\* or one of the two classes above.
Pieces == {<<a>> : a \in Alphabet} \cup {ExitVehicleClass, ReserveSpotClass}

PieceSeqs(n) == UNION {[1..k -> Pieces] : k \in 0..n}

RECURSIVE FlattenFrom(_, _)
FlattenFrom(ps, i) ==
  IF i > Len(ps) THEN <<>> ELSE ps[i] \o FlattenFrom(ps, i + 1)

Flatten(ps) == FlattenFrom(ps, 1)

(***************************************************************************)
(* The regular expressions, as sequences of pattern elements.              *)
(***************************************************************************)
Lit(tok) == [kind |-> "lit", tok |-> tok]
SpaceStar == [kind |-> "\\s*", tok |-> ""]
NotCloseStar == [kind |-> "[^}]*", tok |-> ""]

\* Variant: the second class is the dot (with re.DOTALL), not [^}].
InClassDot(e, tok) ==
  IF e.kind = "\\s*" THEN tok \in WhiteSpace ELSE TRUE

\* Variant: the second class is [^{], the wrong brace.
InClassNotOpen(e, tok) ==
  IF e.kind = "\\s*" THEN tok \in WhiteSpace ELSE tok # OpenBrace

\* Whether one token can be consumed by a starred class (re.DOTALL changes
\* nothing here: no pattern uses the dot).
InClass(e, tok) ==
  IF e.kind = "\\s*" THEN tok \in WhiteSpace ELSE tok # CloseBrace

\* Variant: no whitespace allowed between the field and the closing brace.
ExitVehiclePatternTight ==
  <<Lit(ExitVehicleRequest), SpaceStar, Lit(ticketNumber), Lit(CloseBrace)>>

\* Variant: anything but a closing brace allowed behind the field.
ExitVehiclePatternLoose ==
  <<Lit(ExitVehicleRequest), SpaceStar, Lit(ticketNumber), NotCloseStar,
    Lit(CloseBrace)>>

ExitVehiclePattern ==
  <<Lit(ExitVehicleRequest), SpaceStar, Lit(ticketNumber), SpaceStar,
    Lit(CloseBrace)>>

ReserveSpotPattern ==
  <<Lit(ReserveSpotRequest), SpaceStar, Lit(spotNumber), SpaceStar,
    Lit(durationMinutes), SpaceStar, Lit(CloseBrace)>>

ParkingLotStatusPattern ==
  <<Lit(ParkingLotStatus), NotCloseStar, Lit(CloseBrace)>>

\* Length of the longest run of tokens of class e that starts at index i.
RECURSIVE RunLen(_, _, _)
RunLen(e, text, i) ==
  IF i <= Len(text) /\ InClass(e, text[i])
  THEN 1 + RunLen(e, text, i + 1)
  ELSE 0

\* Backtracking match of pat[k..] at index i of text: the index of the last
\* token of the match plus one, or 0 when there is no match.  A starred
\* element is greedy: it first takes the longest run and gives tokens back
\* one at a time (n = take, take - 1, ..., 0).
RECURSIVE MatchAt(_, _, _, _)
RECURSIVE Backtrack(_, _, _, _, _)
MatchAt(pat, k, text, i) ==
  IF k > Len(pat) THEN i
  ELSE IF pat[k].kind = "lit"
       THEN IF i <= Len(text) /\ text[i] = pat[k].tok
            THEN MatchAt(pat, k + 1, text, i + 1)
            ELSE 0
       ELSE Backtrack(pat, k, text, i, RunLen(pat[k], text, i))

Backtrack(pat, k, text, i, take) ==
  LET e == MatchAt(pat, k + 1, text, i + take)
  IN  IF e # 0 THEN e
      ELSE IF take = 0 THEN 0
      ELSE Backtrack(pat, k, text, i, take - 1)

(***************************************************************************)
(* The replacement templates.                                              *)
(***************************************************************************)
ExitVehicleMethods ==
  <<NL8, "public String getTicketNumber()", Space, OpenBrace, Space,
         "return ticketNumber;", Space, CloseBrace,
    NL8, "public void setTicketNumber(String ticketNumber)", Space, OpenBrace,
         Space, "this.ticketNumber = ticketNumber;", Space, CloseBrace,
    NL4>>

\* Variant: the methods of durationMinutes in front of those of spotNumber.
ReserveSpotMethodsSwapped ==
  <<NL8, "public int getDurationMinutes()", Space, OpenBrace, Space,
         "return durationMinutes;", Space, CloseBrace,
    NL8, "public String getSpotNumber()", Space, OpenBrace, Space,
         "return spotNumber;", Space, CloseBrace,
    NL8, "public void setDurationMinutes(int durationMinutes)", Space,
         OpenBrace, Space, "this.durationMinutes = durationMinutes;", Space,
         CloseBrace,
    NL8, "public void setSpotNumber(String spotNumber)", Space, OpenBrace,
         Space, "this.spotNumber = spotNumber;", Space, CloseBrace,
    NL4>>

ReserveSpotMethods ==
  <<NL8, "public String getSpotNumber()", Space, OpenBrace, Space,
         "return spotNumber;", Space, CloseBrace,
    NL8, "public int getDurationMinutes()", Space, OpenBrace, Space,
         "return durationMinutes;", Space, CloseBrace,
    NL8, "public void setSpotNumber(String spotNumber)", Space, OpenBrace,
         Space, "this.spotNumber = spotNumber;", Space, CloseBrace,
    NL8, "public void setDurationMinutes(int durationMinutes)", Space,
         OpenBrace, Space, "this.durationMinutes = durationMinutes;", Space,
         CloseBrace,
    NL4>>

ParkingLotStatusBody ==
  <<ParkingLotStatus,
    NL8, "private Map<ParkingSpotType, Long> availableSpots;",
    NL8, "private double occupancyRate;",
    NL8, "private int activeTickets;",
    NL8NL8,
    "public ParkingLotStatus(Map<ParkingSpotType, Long> availableSpots, double occupancyRate, int activeTickets)",
    Space, OpenBrace,
    NL12, "this.availableSpots = availableSpots;",
    NL12, "this.occupancyRate = occupancyRate;",
    NL12, "this.activeTickets = activeTickets;",
    NL8, CloseBrace,
    NL8NL8,
    "public Map<ParkingSpotType, Long> getAvailableSpots()", Space, OpenBrace,
    Space, "return availableSpots;", Space, CloseBrace,
    NL8, "public double getOccupancyRate()", Space, OpenBrace, Space,
    "return occupancyRate;", Space, CloseBrace,
    NL8, "public int getActiveTickets()", Space, OpenBrace, Space,
    "return activeTickets;", Space, CloseBrace,
    NL4, CloseBrace>>

\* The three rules: pattern and expansion of the template for the match
\* text[s..e].  In rules 1 and 2 group 1 is the match without its last
\* token, the closing brace that the pattern leaves outside the group.
Rules == {"ExitVehicleRequest", "ReserveSpotRequest", "ParkingLotStatus"}

PatternOf(rule) ==
  CASE rule = "ExitVehicleRequest" -> ExitVehiclePattern
    [] rule = "ReserveSpotRequest" -> ReserveSpotPattern
    [] rule = "ParkingLotStatus" -> ParkingLotStatusPattern

Expand(rule, text, s, e) ==
  CASE rule = "ExitVehicleRequest" ->
         SubSeq(text, s, e - 1) \o ExitVehicleMethods \o <<CloseBrace>>
    [] rule = "ReserveSpotRequest" ->
         SubSeq(text, s, e - 1) \o ReserveSpotMethods \o <<CloseBrace>>
    [] rule = "ParkingLotStatus" -> ParkingLotStatusBody

\* The search of re.sub: the leftmost index at or after i where the pattern
\* of the rule matches, or 0 when it matches nowhere.
NextMatch(rule, text, i) ==
  LET starts == {j \in i..Len(text) : MatchAt(PatternOf(rule), 1, text, j) # 0}
  IN  IF starts = {} THEN 0
      ELSE CHOOSE j \in starts : \A k \in starts : j <= k

\* re.sub with count = 0: the text up to the leftmost match is copied, the
\* match is replaced by the expanded template, and the search goes on
\* behind the match.  (No pattern here matches the empty text.)
RECURSIVE SubFrom(_, _, _)
SubFrom(rule, text, i) ==
  LET s == NextMatch(rule, text, i)
  IN  IF s = 0 THEN SubSeq(text, i, Len(text))
      ELSE LET e == MatchAt(PatternOf(rule), 1, text, s)
           IN  SubSeq(text, i, s - 1) \o Expand(rule, text, s, e - 1)
                 \o SubFrom(rule, text, e)

ReSub(rule, text) == SubFrom(rule, text, 1)

Op1(text) == ReSub("ExitVehicleRequest", text)
Op2(text) == ReSub("ReserveSpotRequest", text)
Op3(text) == ReSub("ParkingLotStatus", text)

(***************************************************************************)
(* The script: one run is read, three substitutions, write, print.         *)
(***************************************************************************)
Message == "Added getters to controller DTO classes"

Min(a, b) == IF a <= b THEN a ELSE b

Range(s) == {s[i] : i \in 1..Len(s)}

Running == {"start", "read", "op1", "op2", "op3", "opened", "closed"}

Init ==
  /\ exists \in BOOLEAN
  /\ \E ps \in (IF exists THEN PieceSeqs(MaxLen) ELSE {<<>>}) :
       file = Flatten(ps)
  /\ writable \in BOOLEAN
  /\ pc = "start"
  /\ content = <<>>
  /\ prev = <<>>
  /\ hist = <<>>
  /\ file0 = file
  /\ stdout = <<>>
  /\ run = 1
  /\ applied = {}

\* Variant: the file is opened with 'w+', which truncates it, and then read.
ReadTruncating ==
  /\ pc = "start"
  /\ IF ~exists
     THEN /\ pc' = "failed"
          /\ UNCHANGED <<content, hist, file>>
     ELSE /\ file' = <<>>
          /\ content' = <<>>
          /\ hist' = Append(hist, "read")
          /\ pc' = "read"
  /\ UNCHANGED <<exists, writable, prev, file0, stdout, run, applied>>

\* with open(controller_file, 'r') as f: content = f.read()
Read ==
  /\ pc = "start"
  /\ IF ~exists
     THEN /\ pc' = "failed"
          /\ UNCHANGED <<content, hist>>
     ELSE /\ content' = file
          /\ hist' = Append(hist, "read")
          /\ pc' = "read"
  /\ UNCHANGED <<file, exists, writable, prev, file0, stdout, run, applied>>

\* content = re.sub(<ExitVehicleRequest pattern>, <template>, content)
SubExitVehicleRequest ==
  /\ pc = "read"
  /\ prev' = content
  /\ content' = Op1(content)
  /\ hist' = Append(hist, "ExitVehicleRequest")
  /\ pc' = "op1"
  /\ UNCHANGED <<file, exists, writable, file0, stdout, run, applied>>

\* content = re.sub(<ReserveSpotRequest pattern>, <template>, content)
SubReserveSpotRequest ==
  /\ pc = "op1"
  /\ prev' = content
  /\ content' = Op2(content)
  /\ hist' = Append(hist, "ReserveSpotRequest")
  /\ pc' = "op2"
  /\ UNCHANGED <<file, exists, writable, file0, stdout, run, applied>>

\* Variant: the result of the third re.sub is not assigned to content.
SubParkingLotStatusDropped ==
  /\ pc = "op2"
  /\ prev' = content
  /\ content' = content
  /\ hist' = Append(hist, "ParkingLotStatus")
  /\ pc' = "op3"
  /\ UNCHANGED <<file, exists, writable, file0, stdout, run, applied>>

\* content = re.sub(<ParkingLotStatus pattern>, <fixed body>, content)
SubParkingLotStatus ==
  /\ pc = "op2"
  /\ prev' = content
  /\ content' = Op3(content)
  /\ hist' = Append(hist, "ParkingLotStatus")
  /\ pc' = "op3"
  /\ UNCHANGED <<file, exists, writable, file0, stdout, run, applied>>

\* Variant: the file is emptied before the permission is found missing.
OpenWriteTruncatesFirst ==
  /\ pc = "op3"
  /\ file' = <<>>
  /\ IF writable
     THEN /\ exists' = TRUE
          /\ hist' = Append(hist, "open")
          /\ pc' = "opened"
     ELSE /\ pc' = "failed"
          /\ UNCHANGED <<exists, hist>>
  /\ UNCHANGED <<writable, content, prev, file0, stdout, run, applied>>

\* open(controller_file, 'w'): fails without touching the file when the
\* file may not be written; otherwise truncates it (and creates it if it
\* is not there).
OpenWrite ==
  /\ pc = "op3"
  /\ IF writable
     THEN /\ file' = <<>>
          /\ exists' = TRUE
          /\ hist' = Append(hist, "open")
          /\ pc' = "opened"
     ELSE /\ pc' = "failed"
          /\ UNCHANGED <<file, exists, hist>>
  /\ UNCHANGED <<writable, content, prev, file0, stdout, run, applied>>

\* f.write(content): the text reaches the disk a buffer at a time.
WriteChunk ==
  /\ pc = "opened"
  /\ Len(file) < Len(content)
  /\ file' = SubSeq(content, 1, Min(Len(file) + ChunkLen, Len(content)))
  /\ UNCHANGED <<exists, writable, pc, content, prev, hist, file0, stdout, run,
                 applied>>

\* Leaving the with block closes the file once all of content is written.
Close ==
  /\ pc = "opened"
  /\ Len(file) = Len(content)
  /\ hist' = Append(hist, "write")
  /\ pc' = "closed"
  /\ UNCHANGED <<file, exists, writable, content, prev, file0, stdout, run, applied>>

\* Variant: the confirmation is printed only when the text has changed.
PrintConfirmationIfChanged ==
  /\ pc = "closed"
  /\ stdout' = IF file # file0 THEN Append(stdout, Message) ELSE stdout
  /\ hist' = Append(hist, "print")
  /\ pc' = "done"
  /\ UNCHANGED <<file, exists, writable, content, prev, file0, run, applied>>

\* print("Added getters to controller DTO classes")
PrintConfirmation ==
  /\ pc = "closed"
  /\ stdout' = Append(stdout, Message)
  /\ hist' = Append(hist, "print")
  /\ pc' = "done"
  /\ UNCHANGED <<file, exists, writable, content, prev, file0, run, applied>>

\* The process is interrupted (a signal, a power cut) between two steps.
Interrupt ==
  /\ pc \in Running
  /\ pc' = "killed"
  /\ UNCHANGED <<file, exists, writable, content, prev, hist, file0, stdout, run, applied>>

\* The script is run again on the file the previous run left.
Invoke ==
  /\ pc = "done"
  /\ run < MaxRuns
  /\ run' = run + 1
  /\ pc' = "start"
  /\ content' = <<>>
  /\ prev' = <<>>
  /\ hist' = <<>>
  /\ file0' = file
  /\ stdout' = <<>>
  /\ UNCHANGED <<file, exists, writable, applied>>

Next ==
  \/ Read
  \/ SubExitVehicleRequest
  \/ SubReserveSpotRequest
  \/ SubParkingLotStatus
  \/ OpenWrite
  \/ WriteChunk
  \/ Close
  \/ PrintConfirmation
  \/ Interrupt
  \/ Invoke

Spec == Init /\ [][Next]_vars

(***************************************************************************)
(* The three rules as pure functions of a text: the input is any text of   *)
(* at most MaxLen pieces, and one rule is applied to it, once or twice.    *)
(***************************************************************************)
InitRules ==
  /\ \E ps \in PieceSeqs(MaxLen) : file0 = Flatten(ps)
  /\ content = file0
  /\ prev = file0
  /\ hist = <<>>
  /\ applied = {}
  /\ pc = "rules"
  /\ file = <<>>
  /\ exists = FALSE
  /\ writable = FALSE
  /\ stdout = <<>>
  /\ run = 0

Apply(rule) ==
  /\ pc = "rules"
  /\ hist \in {<<>>, <<rule>>}
  /\ prev' = content
  /\ content' = ReSub(rule, content)
  /\ hist' = Append(hist, rule)
  /\ UNCHANGED <<file, exists, writable, pc, file0, stdout, run, applied>>

ApplyExitVehicleRequest == Apply("ExitVehicleRequest")
ApplyReserveSpotRequest == Apply("ReserveSpotRequest")
ApplyParkingLotStatus == Apply("ParkingLotStatus")

NextRules ==
  \/ ApplyExitVehicleRequest
  \/ ApplyReserveSpotRequest
  \/ ApplyParkingLotStatus

RuleSpec == InitRules /\ [][NextRules]_vars

(***************************************************************************)
(* The three rules applied to a text of at most MaxLen pieces in any       *)
(* order, each once; applied is the set of the rules applied so far.       *)
(***************************************************************************)
InitOrder ==
  /\ \E ps \in PieceSeqs(MaxLen) : file0 = Flatten(ps)
  /\ content = file0
  /\ prev = <<>>
  /\ hist = <<>>
  /\ applied = {}
  /\ pc = "order"
  /\ file = <<>>
  /\ exists = FALSE
  /\ writable = FALSE
  /\ stdout = <<>>
  /\ run = 0

ApplyOnce(rule) ==
  /\ pc = "order"
  /\ rule \notin applied
  /\ content' = ReSub(rule, content)
  /\ applied' = applied \cup {rule}
  /\ UNCHANGED <<file, exists, writable, pc, prev, hist, file0, stdout, run>>

OnceExitVehicleRequest == ApplyOnce("ExitVehicleRequest")
OnceReserveSpotRequest == ApplyOnce("ReserveSpotRequest")
OnceParkingLotStatus == ApplyOnce("ParkingLotStatus")

NextOrder ==
  \/ OnceExitVehicleRequest
  \/ OnceReserveSpotRequest
  \/ OnceParkingLotStatus

OrderSpec == InitOrder /\ [][NextOrder]_vars

(***************************************************************************)
(* What the claims speak of, stated on the text itself and not through     *)
(* the matcher.                                                            *)
(***************************************************************************)
\* t[i..j] is a class of the given header whose body is exactly the given
\* fields, in that order, with any whitespace around them.
IsFieldBlock(t, i, j, header, fields) ==
  /\ 1 <= i /\ i < j /\ j <= Len(t)
  /\ t[i] = header
  /\ t[j] = CloseBrace
  /\ SelectSeq(SubSeq(t, i + 1, j - 1), LAMBDA tok : tok \notin WhiteSpace)
       = fields

\* The indices of the closing braces of such classes.
BlockEnds(t, header, fields) ==
  {j \in {m \in 1..Len(t) : t[m] = CloseBrace} :
     \E i \in {m \in 1..Len(t) : t[m] = header} :
       IsFieldBlock(t, i, j, header, fields)}

\* t with the tokens ins put in front of every index of at.
RECURSIVE InsertedBefore(_, _, _, _)
InsertedBefore(t, at, ins, i) ==
  IF i > Len(t) THEN <<>>
  ELSE (IF i \in at THEN ins ELSE <<>>) \o <<t[i]>>
         \o InsertedBefore(t, at, ins, i + 1)

\* The tokens of t that are in the set keep, in their order.
Only(t, keep) == SelectSeq(t, LAMBDA tok : tok \in keep)

RECURSIVE Repeat(_, _)
Repeat(t, n) == IF n = 0 THEN <<>> ELSE t \o Repeat(t, n - 1)

LastRule == IF hist = <<>> THEN "" ELSE hist[Len(hist)]

ExitBlockEnds(t) == BlockEnds(t, ExitVehicleRequest, <<ticketNumber>>)

ReserveBlockEnds(t) ==
  BlockEnds(t, ReserveSpotRequest, <<spotNumber, durationMinutes>>)

\* C1: after Operation 1 every class ExitVehicleRequest whose body is the
\* single field ticketNumber has, between its field and its closing brace,
\* exactly one getTicketNumber getter and one setTicketNumber setter, and
\* the text without the inserted lines is the input.
C1_ExitVehicleGetterSetter ==
  (pc = "rules" /\ hist = <<"ExitVehicleRequest">>) =>
    LET ends == ExitBlockEnds(prev)
    IN  /\ content = InsertedBefore(prev, ends, ExitVehicleMethods, 1)
        /\ Only(content, {"public String getTicketNumber()",
                          "public void setTicketNumber(String ticketNumber)"})
             = Repeat(<<"public String getTicketNumber()",
                        "public void setTicketNumber(String ticketNumber)">>,
                      Cardinality(ends))

\* C1 witness: Operation 1 has rewritten a class that had whitespace
\* between its tokens and text in front of it.
C1_Witness ==
  /\ pc = "rules" /\ hist = <<"ExitVehicleRequest">>
  /\ \E j \in ExitBlockEnds(prev) :
       /\ j > 3
       /\ prev[j - 1] \in WhiteSpace
       /\ prev[1] # ExitVehicleRequest
  /\ content # prev

SpanStarts(t) ==
  {i \in 1..Len(t) :
     t[i] = ParkingLotStatus /\ \E j \in (i + 1)..Len(t) : t[j] = CloseBrace}

FirstClose(t, i) ==
  CHOOSE j \in (i + 1)..Len(t) :
    t[j] = CloseBrace /\ \A m \in (i + 1)..(j - 1) : t[m] # CloseBrace

Least(S) == CHOOSE i \in S : \A k \in S : i <= k

\* t with every span from a ParkingLotStatus header to the first closing
\* brace behind it replaced by the fixed body, spans taken from the left.
RECURSIVE SpansReplaced(_)
SpansReplaced(t) ==
  IF SpanStarts(t) = {} THEN t
  ELSE LET i == Least(SpanStarts(t))
           j == FirstClose(t, i)
       IN  SubSeq(t, 1, i - 1) \o ParkingLotStatusBody
             \o SpansReplaced(SubSeq(t, j + 1, Len(t)))

\* C3: Operation 3 replaces each span from a ParkingLotStatus header to the
\* first closing brace behind it by the fixed body, whatever the span held,
\* and leaves the text outside the spans as it was.
C3_ParkingLotStatusSpanReplaced ==
  (pc = "rules" /\ LastRule = "ParkingLotStatus") =>
    /\ content = SpansReplaced(prev)
    /\ SpanStarts(prev) = {} => content = prev

\* C3 witness: Operation 3 has acted on a class whose body had a nested
\* brace pair (the fixed body itself, from a first application), and what
\* followed the first closing brace stands behind the new body.
C3_Witness ==
  /\ pc = "rules" /\ LastRule = "ParkingLotStatus"
  /\ SpanStarts(prev) # {}
  /\ LET i == Least(SpanStarts(prev))
         j == FirstClose(prev, i)
     IN  /\ \E m \in (i + 1)..(j - 1) : prev[m] = OpenBrace
         /\ \E m \in (j + 1)..Len(prev) : prev[m] = CloseBrace
         /\ content = SubSeq(prev, 1, i - 1) \o ParkingLotStatusBody
                        \o SubSeq(prev, j + 1, Len(prev))

\* C8: Operations 1 and 2 do not match their own output: applied a second
\* time, the operation finds no class whose fields are followed by the
\* closing brace, and returns the text as it is.
C8_NoRematch ==
  \A rule \in {"ExitVehicleRequest", "ReserveSpotRequest"} :
    (pc = "rules" /\ hist = <<rule, rule>>) =>
      /\ content = prev
      /\ ExitBlockEnds(prev) = {} \/ rule # "ExitVehicleRequest"
      /\ ReserveBlockEnds(prev) = {} \/ rule # "ReserveSpotRequest"

\* C8 witness: Operation 2 has been applied again to a text it had
\* rewritten.
C8_Witness ==
  /\ pc = "rules" /\ hist = <<"ReserveSpotRequest", "ReserveSpotRequest">>
  /\ prev # file0
  /\ content = prev

\* A field-only class of Operation 1 or 2 lies in a ParkingLotStatus span:
\* a ParkingLotStatus header stands in front of the class with no closing
\* brace between the two, so that the first closing brace behind that
\* header is the closing brace of the class.
BlockInSpan(t) ==
  \E i \in {m \in 1..Len(t) : t[m] \in {ExitVehicleRequest, ReserveSpotRequest}},
     j \in {m \in 1..Len(t) : t[m] = CloseBrace} :
    /\ \/ IsFieldBlock(t, i, j, ExitVehicleRequest, <<ticketNumber>>)
       \/ IsFieldBlock(t, i, j, ReserveSpotRequest,
                       <<spotNumber, durationMinutes>>)
    /\ \E h \in 1..(i - 1) :
         /\ t[h] = ParkingLotStatus
         /\ \A m \in (h + 1)..(i - 1) : t[m] # CloseBrace

\* C9 as claimed: in whatever order the three operations are applied, the
\* final text is that of the order 1, 2, 3.
C9_AnyOrderSameText ==
  (pc = "order" /\ applied = Rules) => content = Op3(Op2(Op1(file0)))

\* C9 as amended: the order does not matter when no field-only class of
\* Operation 1 or 2 lies in a ParkingLotStatus span.
C9_AnyOrderSameTextUnlessNested ==
  (pc = "order" /\ applied = Rules /\ ~BlockInSpan(file0)) =>
    content = Op3(Op2(Op1(file0)))

\* C9 witness: all three operations are applied, two of them have
\* rewritten the text, and no class lies in a span.
C9_Witness ==
  /\ pc = "order" /\ applied = Rules
  /\ ~BlockInSpan(file0)
  /\ ExitBlockEnds(file0) \cup ReserveBlockEnds(file0) # {}
  /\ SpanStarts(file0) # {}
  /\ content = Op3(Op2(Op1(file0)))

(***************************************************************************)
(* The claims about a run of the script.                                   *)
(***************************************************************************)
InScript == pc \notin {"rules", "order"}

FullRun ==
  <<"read", "ExitVehicleRequest", "ReserveSpotRequest", "ParkingLotStatus",
    "open", "write", "print">>

IsPrefix(a, b) == Len(a) <= Len(b) /\ a = SubSeq(b, 1, Len(a))

Did(step) == step \in Range(hist)

\* The text of the file the run started on, after the three operations.
Patched(t) == Op3(Op2(Op1(t)))

\* None of the three patterns occurs in t.
NoPattern(t) ==
  /\ SpanStarts(t) = {}
  /\ ExitBlockEnds(t) = {}
  /\ ReserveBlockEnds(t) = {}

\* C4 as claimed: a second run of the script leaves the file as the first
\* run left it.
C4_SecondRunLeavesFileUnchanged ==
  (InScript /\ run > 1 /\ pc = "done") => file = file0

\* C5: on a file that holds none of the three patterns every operation
\* returns the text as it is, no operation raises an error, the text
\* written is the text read, and the confirmation is printed.  (Written as
\* "the consequence holds or the file holds a pattern".)
C5_NoPatternSameTextAndMessage ==
  InScript =>
    \/ /\ Did("read") => content = file0
       /\ Did("write") => file = file0
       /\ pc = "failed" => ~exists \/ ~writable
       /\ pc = "done" => file = file0 /\ stdout = <<Message>>
    \/ ~NoPattern(file0)

\* C5 witness: a run on a file that has a class header but no pattern is
\* done, the file is as it was and the confirmation is printed.
C5_Witness ==
  /\ InScript /\ run = 1 /\ pc = "done"
  /\ NoPattern(file0)
  /\ \E i \in 1..Len(file0) :
       file0[i] \in {ExitVehicleRequest, ReserveSpotRequest, ParkingLotStatus}
  /\ file = file0
  /\ stdout = <<Message>>

\* C6: when the file is missing or may not be written, the failing open
\* takes the run to the failed state (unless the run is interrupted there),
\* nothing is printed, no file is created and the content of an existing
\* file is left alone.
C6_IOErrorNoMessageNoChange ==
  /\ []((InScript /\ (~exists \/ ~writable)) =>
          /\ stdout = <<>>
          /\ pc \notin {"opened", "closed", "done"}
          /\ ~exists => file = <<>> /\ pc \in {"start", "failed", "killed"}
          /\ exists => file = file0)
  /\ [][(InScript /\ (\/ ~exists /\ pc = "start"
                      \/ ~writable /\ pc = "op3"))
          => pc' \in {"failed", "killed"}]_vars

\* C6 witness: the run has failed at the open for writing, with a patched
\* text in memory and the file as it was.
C6_Witness ==
  /\ InScript /\ pc = "failed"
  /\ exists /\ ~writable
  /\ hist = SubSeq(FullRun, 1, 4)
  /\ content # file0
  /\ file = file0
  /\ stdout = <<>>

\* C7: the steps of a run are a prefix of read, Operation 1, 2, 3, open,
\* write, print; the text in memory after Operation 3 is the text read with
\* all three operations applied and does not change any more; the file is
\* written once, with that text; the confirmation is printed once, after
\* the write.
C7_OrderWriteOncePrintLast ==
  /\ [](InScript =>
          /\ IsPrefix(hist, FullRun)
          /\ pc = "op3" => content = Patched(file0)
          /\ ~Did("open") => file = file0
          /\ Did("open") => IsPrefix(file, content)
          /\ Did("write") => file = content
          /\ stdout = (IF Did("print") THEN <<Message>> ELSE <<>>)
          /\ Did("print") => Did("write") /\ pc = "done")
  /\ [][(InScript /\ Did("ParkingLotStatus") /\ run' = run)
          => content' = content]_vars

\* C7 witness: a run is done on a file where Operations 1 and 3 both
\* rewrote the text.
C7_Witness ==
  /\ InScript /\ pc = "done" /\ run = 1
  /\ hist = FullRun
  /\ ExitBlockEnds(file0) # {}
  /\ SpanStarts(file0) # {}
  /\ file = Patched(file0)
  /\ file # Op1(file0)
  /\ file # Op3(file0)
  /\ stdout = <<Message>>

\* C10: until the file is opened for writing it holds its original
\* content; only from that open to the end of the write can it hold a
\* content that is neither the original text nor the text the run writes.
C10_OriginalUntilOpenForWrite ==
  InScript =>
    /\ ~Did("open") => file = file0
    /\ (file # file0 /\ file # content) => Did("open") /\ ~Did("write")
    /\ Did("write") => file = content

\* C10 witness: the run was interrupted in the middle of the write and the
\* file holds a part of the final text, which is neither the original nor
\* the final text.
C10_Witness ==
  /\ InScript /\ pc = "killed"
  /\ Did("open") /\ ~Did("write")
  /\ file # <<>>
  /\ file \notin {file0, content}
  /\ IsPrefix(file, content)

====
